---- MODULE Spec2Model ----
(***************************************************************************)
(* MOM3NT DATA (src/src/App.jsx, second revision, lines 190-1192): the     *)
(* training-cycle calendar and the leaderboard of the App component.       *)
(*                                                                         *)
(* A JavaScript Date is an instant, counted here in whole hours since      *)
(* 1970-01-01T00:00Z.  The browser's time zone is a fixed UTC offset `tz`  *)
(* in hours (no daylight-saving change inside a run).  A JavaScript string *)
(* that the code trims is a sequence of one-character strings; the other   *)
(* strings are only compared and stay TLA+ strings.                        *)
(***************************************************************************)
EXTENDS Integers, Sequences, FiniteSets, TLC

VARIABLES
    tz,             \* UTC offset of the browser, hours (local = UTC + tz)
    now,            \* what new Date() returned when the page was opened
    monthDate,      \* the month shown by the calendar: [y |-> , m |-> 1..12]
    selectedDate,   \* the selected day, an instant
    lbMovementName, \* the movement chosen in the leaderboard dropdown
    entries,        \* the local snapshot of the entry store, in fetch order
    session,        \* the signed-in user's id, NoSession when signed out
    profName,       \* the state `name`: the profile name held locally
    profGender,     \* the state `gender`: the profile gender held locally
    mirror,         \* localStorage mom3nt_name / mom3nt_gender
    profileOpen,    \* whether the profile modal is shown
    inputVal,       \* the text of the value field
    inputNotes,     \* the text of the notes field
    store,          \* the rows of the entries table, in table order
    profiles,       \* the profiles table: user id -> <<profile>> or << >>
    failed,         \* the store requests that failed in the latest handler
    alert,          \* the message the latest handler showed, NoAlert if none
    saved,          \* history: `latest`, per (user_id, date) the row of the
                    \* latest upsert the store accepted, and `replaced`,
                    \* whether an accepted upsert changed an earlier row
    pending,        \* the saveEntry calls that wait for the store
    authEffects     \* the instances of the auth effect, in mount order

calVars == <<tz, now, monthDate, selectedDate, lbMovementName, entries>>
appVars == <<session, profName, profGender, mirror, profileOpen, inputVal, inputNotes,
             store, profiles, failed, alert, saved>>
asyncVars == <<pending, authEffects>>
vars == <<calVars, appVars, asyncVars>>

(* ------------------------------ bounds -------------------------------- *)

\* Months the calendar can be paged to before the first cycle's month.
MonthsBefore == 1
\* Months the calendar can be paged to after the last cycle's month.
MonthsAfter == 1
\* Rows a run adds to the entries snapshot after it was loaded.
MaxAdded == 2

\* UTC offsets of the browser (west of, at, and east of Greenwich).
TZOffsets == {0 - 5, 0, 9}

(* ------------------------- the civil calendar ------------------------- *)

IsLeap(y) == (y % 4 = 0 /\ y % 100 # 0) \/ y % 400 = 0

DaysInMonth(y, m) ==
    IF m = 2 THEN (IF IsLeap(y) THEN 29 ELSE 28)
    ELSE IF m \in {4, 6, 9, 11} THEN 30 ELSE 31

RECURSIVE DaysBeforeMonth(_, _)
DaysBeforeMonth(y, m) ==
    IF m = 1 THEN 0 ELSE DaysBeforeMonth(y, m - 1) + DaysInMonth(y, m - 1)

\* Leap days in the years 1970 .. y-1.
LeapDaysBefore(y) ==
    ((y - 1969) \div 4) - ((y - 1901) \div 100) + ((y - 1601) \div 400)

\* Days from 1970-01-01 to the civil date y-m-d.
DayNumber(y, m, d) ==
    365 * (y - 1970) + LeapDaysBefore(y) + DaysBeforeMonth(y, m) + (d - 1)

\* new Date('YYYY-MM-DD'): a date-only ISO string is parsed as UTC midnight.
DateParseUTC(y, m, d) == DayNumber(y, m, d) * 24

\* new Date(y, m, d): local midnight of the civil date.
DateLocal(y, m, d) == DayNumber(y, m, d) * 24 - tz

\* The local calendar day (a day number) an instant falls on:
\* what getFullYear/getMonth/getDate read.
LocalDay(t) == (t + tz) \div 24

\* d.getFullYear(), d.getMonth() + 1 of an instant, as [y, m].
LocalYearMonth(t) ==
    CHOOSE ym \in [y : 2024..2027, m : 1..12] :
        /\ DayNumber(ym.y, ym.m, 1) <= LocalDay(t)
        /\ LocalDay(t) < DayNumber(ym.y, ym.m, 1) + DaysInMonth(ym.y, ym.m)

(* ------------------------------ helpers ------------------------------- *)

\* startOfDay: local midnight of the instant's local day.
startOfDay(d) == LocalDay(d) * 24 - tz

WeekdayNames ==
    <<"Sunday", "Monday", "Tuesday", "Wednesday", "Thursday", "Friday", "Saturday">>

\* dayName: the en-US long weekday name of the instant's local day
\* (1970-01-01 was a Thursday).
dayName(d) == WeekdayNames[((LocalDay(d) + 4) % 7) + 1]

(* A JavaScript object literal is an ordered map: a sequence of            *)
(* [k |-> key, v |-> value] in insertion order.                            *)
ObjHas(obj, key) == \E i \in DOMAIN obj : obj[i].k = key
ObjGet(obj, key) == obj[CHOOSE i \in DOMAIN obj : obj[i].k = key].v

Mov(key, name, unit) == [key |-> key, name |-> name, unit |-> unit]
KV(k, v) == [k |-> k, v |-> v]

(* ------------------------- movements and cycles ----------------------- *)

LEGACY_MOVEMENTS == <<
    KV("Sunday",    Mov("sun", "3 Rep Max Landmine clean", "lbs")),
    KV("Monday",    Mov("mon", "6 Rep Reverse Lunge Max", "lbs")),
    KV("Tuesday",   Mov("tue", "Max power Keiser Push/Pull", "watts")),
    KV("Wednesday", Mov("wed", "Max Treadmill Speed", "mph")),
    KV("Thursday",  Mov("thu", "6 Rep Max Kickstand RDL", "lbs")),
    KV("Friday",    Mov("fri", "6 Rep Max S/A Pull Down", "lbs")),
    KV("Saturday",  Mov("sat", "Max distance 30 sec assault bike", "miles")) >>

PREV_CYCLE_START == DateParseUTC(2025, 7, 6)
PREV_CYCLE_END == DateParseUTC(2025, 8, 31)
PREV_WEEK_TEMPLATE == LEGACY_MOVEMENTS

SEPT_CYCLE_START == DateParseUTC(2025, 9, 1)
SEPT_CYCLE_WEEKS == 6
SEPT_WEEK_TEMPLATE == <<
    KV("Monday",    Mov("w_mon", "6 Rep Bulgarian Split Squat", "lbs")),
    KV("Tuesday",   Mov("w_tue", "6 Rep DB Floor Press", "lbs")),
    KV("Wednesday", Mov("w_wed", ".1 Distance Run", "time")),
    KV("Thursday",  Mov("w_thu", "6 Rep Smith RDL", "lbs")),
    KV("Friday",    Mov("w_fri", "Pull Up + Push Press EDT", "rounds")),
    KV("Saturday",  Mov("w_sat", "Ski/Curl/Squat METCON", "time")),
    KV("Sunday",    Mov("w_sun", "Keiser Rotate to Press", "watts")) >>

OCT_CYCLE_START == DateParseUTC(2025, 10, 13)
OCT_CYCLE_WEEKS == 6
OCT_WEEK_TEMPLATE == <<
    KV("Monday",    Mov("o_mon", "Barbell Box Squat", "lbs")),
    KV("Tuesday",   Mov("o_tue", "Barbell Block Bench Press", "lbs")),
    KV("Wednesday", Mov("o_wed", ".25 Assault Bike", "time")),
    KV("Thursday",  Mov("o_thu", "Kickstand Landmine RDL", "lbs")),
    KV("Friday",    Mov("o_fri", "Half Kneeling S/A DB Press", "lbs")),
    KV("Saturday",  Mov("o_sat", ".25 Distance Run", "time")),
    KV("Sunday",    Mov("o_sun", "Kettlebell Complex", "lbs")) >>

NOV_CYCLE_START == DateParseUTC(2025, 11, 24)
NOV_CYCLE_WEEKS == 6
NOV_WEEK_TEMPLATE == <<
    KV("Monday",    Mov("n_mon", "Keiser Belt Squat", "watts")),
    KV("Tuesday",   Mov("n_tue", "S/A Tempo DB Row", "lbs")),
    KV("Wednesday", Mov("n_wed", "Keiser Step Chop", "watts")),
    KV("Thursday",  Mov("n_thu", "Barbell Hip Thrust", "lbs")),
    KV("Friday",    Mov("n_fri", "S/A Kneeling Pull Down", "kgs")),
    KV("Saturday",  Mov("n_sat", "200 Meter Ski", "time")),
    KV("Sunday",    Mov("n_sun", "Landmine Clean + Jerk", "lbs")) >>

JAN_CYCLE_START == DateParseUTC(2026, 1, 12)
JAN_CYCLE_WEEKS == 6
\* A template that takes up the November cycle's Sunday name with another unit.
JAN_WEEK_TEMPLATE_ReusingName == <<
    KV("Monday",    Mov("j_mon", "Landmine Clean + Jerk", "kgs")),
    KV("Tuesday",   Mov("j_tue", "Seated Cable Bench Row 6 RM", "kgs")),
    KV("Wednesday", Mov("j_wed", "Keiser Bar Chop Max Power", "watts")),
    KV("Thursday",  Mov("j_thu", "Smith Bulgarian Split Squat 6 RM", "lbs")),
    KV("Friday",    Mov("j_fri", "Smith Pin Press 6 RM", "lbs")),
    KV("Saturday",  Mov("j_sat", "Treadmill 30 Sec Max Distance", "miles")),
    KV("Sunday",    Mov("j_sun", "S/A Kickstand KB Clean", "lbs")) >>

JAN_WEEK_TEMPLATE == <<
    KV("Monday",    Mov("j_mon", "Landmine kickstand squat 6 RM", "lbs")),
    KV("Tuesday",   Mov("j_tue", "Seated Cable Bench Row 6 RM", "kgs")),
    KV("Wednesday", Mov("j_wed", "Keiser Bar Chop Max Power", "watts")),
    KV("Thursday",  Mov("j_thu", "Smith Bulgarian Split Squat 6 RM", "lbs")),
    KV("Friday",    Mov("j_fri", "Smith Pin Press 6 RM", "lbs")),
    KV("Saturday",  Mov("j_sat", "Treadmill 30 Sec Max Distance", "miles")),
    KV("Sunday",    Mov("j_sun", "S/A Kickstand KB Clean", "lbs")) >>

CYCLES == <<
    [start |-> PREV_CYCLE_START, endOverride |-> PREV_CYCLE_END,
     weekTemplate |-> PREV_WEEK_TEMPLATE],
    [start |-> SEPT_CYCLE_START, weeks |-> SEPT_CYCLE_WEEKS,
     weekTemplate |-> SEPT_WEEK_TEMPLATE],
    [start |-> OCT_CYCLE_START, weeks |-> OCT_CYCLE_WEEKS,
     weekTemplate |-> OCT_WEEK_TEMPLATE],
    [start |-> NOV_CYCLE_START, weeks |-> NOV_CYCLE_WEEKS,
     weekTemplate |-> NOV_WEEK_TEMPLATE],
    [start |-> JAN_CYCLE_START, weeks |-> JAN_CYCLE_WEEKS,
     weekTemplate |-> JAN_WEEK_TEMPLATE] >>

\* end.setDate(end.getDate() + weeks * 7 - 1) moves the local calendar day.
getCycleBoundsOffByOne(cycle) ==
    LET start == startOfDay(cycle.start) IN
    IF "endOverride" \in DOMAIN cycle
    THEN [start |-> start, end |-> startOfDay(cycle.endOverride)]
    ELSE [start |-> start, end |-> start + (cycle.weeks * 7) * 24]

getCycleBounds(cycle) ==
    LET start == startOfDay(cycle.start) IN
    IF "endOverride" \in DOMAIN cycle
    THEN [start |-> start, end |-> startOfDay(cycle.endOverride)]
    ELSE [start |-> start, end |-> start + (cycle.weeks * 7 - 1) * 24]

\* The loop of getCycleForDate / getCurrentCycleIndex from position i on:
\* the first i' >= i whose bounds contain `day`, 0 when there is none.
RECURSIVE FirstCycleFrom(_, _)
FirstCycleFrom(day, i) ==
    IF i > Len(CYCLES) THEN 0
    ELSE LET b == getCycleBounds(CYCLES[i]) IN
         IF day >= b.start /\ day <= b.end THEN i ELSE FirstCycleFrom(day, i + 1)

\* getCycleForDate: <<c>> for the cycle found, << >> for null.
getCycleForDateNoStartOfDay(d) ==
    LET i == FirstCycleFrom(d, 1) IN
    IF i = 0 THEN << >> ELSE <<CYCLES[i]>>

getCycleForDate(d) ==
    LET i == FirstCycleFrom(startOfDay(d), 1) IN
    IF i = 0 THEN << >> ELSE <<CYCLES[i]>>

\* getCurrentCycleIndex: the 0-based index, -1 when no cycle contains the date.
getCurrentCycleIndex(date) == FirstCycleFrom(startOfDay(date), 1) - 1

TBD == Mov("tbd", "TBD", "")

\* movementForDate falling back to the legacy template before TBD.
movementForDateLegacy(d) ==
    LET cycle == getCycleForDate(d) IN
    IF cycle # << >> /\ ObjHas(cycle[1].weekTemplate, dayName(d))
    THEN ObjGet(cycle[1].weekTemplate, dayName(d))
    ELSE IF ObjHas(LEGACY_MOVEMENTS, dayName(d))
         THEN ObjGet(LEGACY_MOVEMENTS, dayName(d))
         ELSE TBD

movementForDate(d) ==
    LET cycle == getCycleForDate(d) IN
    IF cycle # << >> /\ ObjHas(cycle[1].weekTemplate, dayName(d))
    THEN ObjGet(cycle[1].weekTemplate, dayName(d))
    ELSE TBD

(* ------------------------------ strings ------------------------------- *)

\* The name of an entry without a name (null in the store).
NullName == <<"null">>
Member == <<"M", "e", "m", "b", "e", "r">>

IsSpace(c) == c \in {" ", "\t", "\n"}

RECURSIVE TrimStart(_)
TrimStart(s) ==
    IF s # << >> /\ IsSpace(Head(s)) THEN TrimStart(Tail(s)) ELSE s

RECURSIVE TrimEnd(_)
TrimEnd(s) ==
    IF s # << >> /\ IsSpace(s[Len(s)]) THEN TrimEnd(SubSeq(s, 1, Len(s) - 1)) ELSE s

\* String.prototype.trim
Trim(s) == TrimEnd(TrimStart(s))

\* s || dflt for a nullable string: null and '' are falsy.
OrElse(s, dflt) == IF s = NullName \/ s = << >> THEN dflt ELSE s

(* ----------------------------- leaderboard ---------------------------- *)

WEEKDAY_ORDER ==
    <<"Monday", "Tuesday", "Wednesday", "Thursday", "Friday", "Saturday", "Sunday">>

\* The unit of the first movement named `name` among the values of `obj`,
\* << >> when none has that name (`m.unit || ''` of the match).
RECURSIVE UnitInObject(_, _, _)
UnitInObject(obj, name, i) ==
    IF i > Len(obj) THEN << >>
    ELSE IF obj[i].v.name = name THEN <<obj[i].v.unit>>
    ELSE UnitInObject(obj, name, i + 1)

RECURSIVE UnitInCycles(_, _)
UnitInCycles(name, i) ==
    IF i > Len(CYCLES) THEN << >>
    ELSE LET u == UnitInObject(CYCLES[i].weekTemplate, name, 1) IN
         IF u # << >> THEN u ELSE UnitInCycles(name, i + 1)

getMovementUnitByNameLegacyOnly(movementName) ==
    IF movementName = "" THEN ""
    ELSE LET l == UnitInObject(LEGACY_MOVEMENTS, movementName, 1) IN
         IF l # << >> THEN l[1] ELSE ""

getMovementUnitByName(movementName) ==
    IF movementName = "" THEN ""
    ELSE LET c == UnitInCycles(movementName, 1) IN
         IF c # << >> THEN c[1]
         ELSE LET l == UnitInObject(LEGACY_MOVEMENTS, movementName, 1) IN
              IF l # << >> THEN l[1] ELSE ""

LOWER_BETTER_MOVES ==
    {".1 Distance Run", ".25 Assault Bike", ".25 Distance Run", "200 Meter Ski"}

lowerIsBetter(name) ==
    getMovementUnitByName(name) = "time" \/ name \in LOWER_BETTER_MOVES

\* rows: the entries of the movement with a recognized gender.
leaderboardRowsAnyGender(es, name) ==
    SelectSeq(es, LAMBDA e : e.movement = name)

leaderboardRows(es, name) ==
    SelectSeq(es, LAMBDA e :
        e.movement = name /\ (e.gender = "male" \/ e.gender = "female"))

isBetterAlwaysHigher(newVal, prevVal, lower) == newVal > prevVal

isBetter(newVal, prevVal, lower) ==
    IF lower THEN newVal < prevVal ELSE newVal > prevVal

\* key = (r.name || 'Member').trim() || 'Member'
leaderboardKeyUntrimmed(r) == OrElse(r.name, Member)

leaderboardKey(r) == OrElse(Trim(OrElse(r.name, Member)), Member)

(* A Map is a sequence of [k, v] in the order the keys were first set.     *)
MapHas(m, key) == \E i \in DOMAIN m : m[i].k = key
MapGet(m, key) == m[CHOOSE i \in DOMAIN m : m[i].k = key].v
MapSet(m, key, val) ==
    IF MapHas(m, key)
    THEN [i \in DOMAIN m |-> IF m[i].k = key THEN KV(key, val) ELSE m[i]]
    ELSE Append(m, KV(key, val))
MapValues(m) == [i \in DOMAIN m |-> m[i].v]

\* for (const r of rows) { ... bucket.set(key, r) }: the two Maps after the
\* rows from position i on were folded into [male |-> , female |-> ].
RECURSIVE BestByPerson(_, _, _, _)
BestByPerson(rows, i, lower, best) ==
    IF i > Len(rows) THEN best
    ELSE LET r == rows[i]
             key == leaderboardKey(r)
             g == IF r.gender = "male" THEN "male" ELSE "female"
             bucket == best[g]
             take == \/ ~MapHas(bucket, key)
                     \/ isBetter(r.value, MapGet(bucket, key).value, lower)
         IN BestByPerson(rows, i + 1, lower,
                IF take THEN [best EXCEPT ![g] = MapSet(bucket, key, r)] ELSE best)

\* sortFn(a, b) < 0: a goes before b.
sortFnIgnoringDirection(a, b, lower) == b.value - a.value

sortFn(a, b, lower) ==
    IF lower THEN a.value - b.value ELSE b.value - a.value

\* Array.prototype.sort is stable: an element goes behind every element it
\* does not precede.
RECURSIVE SortInsert(_, _, _)
SortInsert(sorted, r, lower) ==
    IF sorted = << >> THEN <<r>>
    ELSE IF sortFn(r, Head(sorted), lower) < 0 THEN <<r>> \o sorted
    ELSE <<Head(sorted)>> \o SortInsert(Tail(sorted), r, lower)

RECURSIVE SortRows(_, _, _)
SortRows(rows, n, lower) ==
    IF n = 0 THEN << >>
    ELSE SortInsert(SortRows(rows, n - 1, lower), rows[n], lower)

TopN == 5

Slice(s, n) == SubSeq(s, 1, IF Len(s) < n THEN Len(s) ELSE n)

\* top5 = Array.from(m.values()).sort(sortFn).slice(0, 5)
top5SliceFirst(m, lower) ==
    LET vals == Slice(MapValues(m), TopN) IN SortRows(vals, Len(vals), lower)

top5(m, lower) ==
    LET vals == MapValues(m) IN Slice(SortRows(vals, Len(vals), lower), TopN)

\* The leaderboard memo for an entries snapshot and a movement name.
leaderboardOf(es, name) ==
    IF name = "" THEN [male |-> << >>, female |-> << >>, unit |-> ""]
    ELSE LET lower == lowerIsBetter(name)
             rows == leaderboardRows(es, name)
             best == BestByPerson(rows, 1, lower, [male |-> << >>, female |-> << >>])
         IN [male |-> top5(best.male, lower),
             female |-> top5(best.female, lower),
             unit |-> getMovementUnitByName(name)]

leaderboard == leaderboardOf(entries, lbMovementName)

\* todaysMovement
todaysMovement == movementForDate(now)

\* leaderboardOptions: the movements of the current cycle (of the last one
\* when today is in no cycle), in WEEKDAY_ORDER.
leaderboardOptions ==
    LET idx == getCurrentCycleIndex(now)
        currentCycle == IF idx >= 0 THEN CYCLES[idx + 1] ELSE CYCLES[Len(CYCLES)]
        present == SelectSeq(WEEKDAY_ORDER,
                       LAMBDA wd : ObjHas(currentCycle.weekTemplate, wd))
    IN [i \in DOMAIN present |->
           LET m == ObjGet(currentCycle.weekTemplate, present[i])
           IN [name |-> m.name, unit |-> m.unit]]

\* The effect that picks the dropdown's first value: today's movement, or
\* the first option when today is a TBD day.
InitialLbMovementName ==
    IF todaysMovement.name # "TBD" THEN todaysMovement.name
    ELSE IF leaderboardOptions # << >> THEN leaderboardOptions[1].name ELSE ""

(* ------------------------------- inputs -------------------------------- *)

\* Clock readings at page load: the evening (UTC) of the last Saturday of
\* the October cycle, the afternoon of that cycle's last configured day (a
\* Sunday), a day between the November and January cycles, and a day after
\* the last cycle.
NowInstants ==
    { DateParseUTC(2025, 11, 22) + 20,
      DateParseUTC(2025, 11, 23) + 15,
      DateParseUTC(2026, 1, 5) + 12,
      DateParseUTC(2026, 3, 10) + 12 }

MonthNo(ym) == ym.y * 12 + (ym.m - 1)
\* The months the calendar is paged through: from before July 2025 (the
\* first cycle's month) to after February 2026 (the last cycle's).
FirstMonth == MonthNo([y |-> 2025, m |-> 7]) - MonthsBefore
LastMonth == MonthNo([y |-> 2026, m |-> 2]) + MonthsAfter

Al == <<"A", "l">>
\* Names on rows that arrive after the load: a blank one and a name
\* written with a trailing blank.
AddedNames == { <<" ">>, Al \o <<" ">> }
\* Genders on stored rows: the two recognized ones and a missing one.
Genders == {"male", "female", ""}
Values == {1, 2}
\* The October cycle's Sunday movement (lbs) and Saturday movement (time).
HigherMove == "Kettlebell Complex"
LowerMove == ".25 Distance Run"

\* A row written by a member who does not sign in on this browser.
OtherMember == "other"
Entry(name, gender, movement, value) ==
    [user_id |-> OtherMember, name |-> name, gender |-> gender,
     movement |-> movement, value |-> value]

AddedRows ==
    { Entry(n, g, m, v) : n \in AddedNames, g \in Genders,
                          m \in {HigherMove, LowerMove}, v \in Values }

\* A store that already holds five men's results on both movements, one
\* of the men without a name.
Crowd == <<
    Entry(NullName,         "male", HigherMove, 2),
    Entry(<<"B", "o">>,     "male", HigherMove, 1),
    Entry(<<"C", "y">>,     "male", HigherMove, 3),
    Entry(<<" ", "D">>,     "male", HigherMove, 2),
    Entry(<<"E", "d">>,     "male", HigherMove, 1),
    Entry(NullName,         "male", LowerMove, 2),
    Entry(<<"B", "o">>,     "male", LowerMove, 3),
    Entry(<<"C", "y">>,     "male", LowerMove, 1),
    Entry(<<" ", "D">>,     "male", LowerMove, 2),
    Entry(<<"E", "d">>,     "male", LowerMove, 3) >>

StoredSnapshots == { << >>, Crowd }

\* Rows of the snapshot that arrived after the load.
AddedCount(es) ==
    IF Len(es) >= Len(Crowd) /\ SubSeq(es, 1, Len(Crowd)) = Crowd
    THEN Len(es) - Len(Crowd) ELSE Len(es)

(* -------------------------- numbers and text --------------------------- *)

\* A JavaScript number as the code meets it: a finite value counted in
\* thousandths, a finite value too large to count ("large"), NaN, or
\* Infinity.  JSON has no NaN or Infinity: on the wire and in the store
\* they are null.
Num(milli) == [kind |-> "num", milli |-> milli]
Large == [kind |-> "large", milli |-> 0]
NaN == [kind |-> "NaN", milli |-> 0]
Infinity == [kind |-> "Infinity", milli |-> 0]
NullValue == [kind |-> "null", milli |-> 0]

\* The text of the value field is a sequence of runs, a character and how
\* often it is repeated: "1000" is <<Run("1", 1), Run("0", 3)>>.
Run(c, n) == [c |-> c, n |-> n]
Runs(chars) == [i \in DOMAIN chars |-> Run(chars[i], 1)]

RECURSIVE Chars(_)
Chars(text) ==
    IF text = << >> THEN << >>
    ELSE [i \in 1..Head(text).n |-> Head(text).c] \o Chars(Tail(text))

RECURSIVE TextLength(_)
TextLength(text) ==
    IF text = << >> THEN 0 ELSE Head(text).n + TextLength(Tail(text))

Digits == <<"0", "1", "2", "3", "4", "5", "6", "7", "8", "9">>
IsDigit(c) == c \in {"0", "1", "2", "3", "4", "5", "6", "7", "8", "9"}
DigitValue(c) == (CHOOSE i \in DOMAIN Digits : Digits[i] = c) - 1

\* The least member of a non-empty set of numbers.
Least(S) == CHOOSE i \in S : \A j \in S : i <= j

\* NumberField's sanitize with allowDecimal: digits and the first dot only.
sanitize(raw) ==
    LET next == SelectSeq(raw, LAMBDA r : IsDigit(r.c) \/ r.c = ".")
        dots == { i \in DOMAIN next : next[i].c = "." } IN
    IF dots = {} THEN next
    ELSE LET firstDot == Least(dots) IN
         SubSeq(next, 1, firstDot - 1) \o <<Run(".", 1)>>
             \o SelectSeq(SubSeq(next, firstDot + 1, Len(next)),
                          LAMBDA r : r.c # ".")

\* The text without its leading runs of characters in `set`.
DropLeading(text, set) ==
    LET others == { i \in DOMAIN text : text[i].c \notin set } IN
    IF others = {} THEN << >> ELSE SubSeq(text, Least(others), Len(text))

\* The longest prefix of text made of digits.
DigitPrefix(text) ==
    LET others == { i \in DOMAIN text : ~IsDigit(text[i].c) } IN
    IF others = {} THEN text ELSE SubSeq(text, 1, Least(others) - 1)

RECURSIVE DigitsValue(_)
DigitsValue(chars) ==
    IF chars = << >> THEN 0
    ELSE DigitsValue(SubSeq(chars, 1, Len(chars) - 1)) * 10
             + DigitValue(chars[Len(chars)])

\* The first three decimals of a fraction, as thousandths.
Thousandths(frac) ==
    DigitsValue(SubSeq(frac \o <<"0", "0", "0">>, 1, 3))

\* Whole numbers of more digits than this are beyond the largest finite
\* double (about 1.8 * 10^308) and parse to Infinity.
MaxFiniteDigits == 309
\* Whole numbers of at most this many digits are counted exactly.
MaxExactDigits == 6

\* parseFloat on text without sign or exponent (what sanitize lets through
\* and what String gives for the numbers met here): the longest prefix
\* "digits [. digits]"; NaN when that prefix holds no digit; Infinity when
\* the value is beyond the doubles.
parseFloat(text) ==
    LET s == DropLeading(text, {" ", "\t", "\n"})
        int == DigitPrefix(s)
        rest == SubSeq(s, Len(int) + 1, Len(s))
        frac == IF rest # << >> /\ Head(rest).c = "." /\ Head(rest).n = 1
                THEN DigitPrefix(Tail(rest)) ELSE << >>
        sig == DropLeading(int, {"0"}) IN
    IF int = << >> /\ frac = << >> THEN NaN
    ELSE IF TextLength(sig) > MaxFiniteDigits THEN Infinity
    ELSE IF TextLength(sig) > MaxExactDigits THEN Large
    ELSE Num(DigitsValue(Chars(sig)) * 1000 + Thousandths(Chars(frac)))

\* !v || v <= 0 : zero and NaN are falsy; NaN <= 0 is false.
NotPositive(v) ==
    \/ v.kind = "NaN"
    \/ v.kind = "num" /\ v.milli = 0
    \/ v.kind = "num" /\ v.milli <= 0

\* JSON.stringify of a number (the body of the upsert request).
JsonNumber(v) == IF v.kind \in {"NaN", "Infinity"} THEN NullValue ELSE v

RECURSIVE NatToString(_)
NatToString(n) ==
    IF n < 10 THEN <<Digits[n + 1]>>
    ELSE NatToString(n \div 10) \o <<Digits[(n % 10) + 1]>>

RECURSIVE DropTrailingZeros(_)
DropTrailingZeros(chars) ==
    IF chars # << >> /\ chars[Len(chars)] = "0"
    THEN DropTrailingZeros(SubSeq(chars, 1, Len(chars) - 1))
    ELSE chars

\* String(value) of a stored number, as text.
NumberToString(v) ==
    LET f == v.milli % 1000
        f3 == <<Digits[(f \div 100) + 1], Digits[((f \div 10) % 10) + 1],
                Digits[(f % 10) + 1]>> IN
    Runs(NatToString(v.milli \div 1000)
             \o (IF f = 0 THEN << >> ELSE <<".">> \o DropTrailingZeros(f3)))

\* isoLocal: the local calendar date of an instant as 'YYYY-MM-DD'.  Such a
\* string is counted as the day number of its date, so that comparing two
\* of them as strings is comparing the numbers.
iso(d) == d \div 24

isoLocal(d) == LocalDay(d)

\* new Date(dateISO + 'T00:00:00'): local midnight of the date.
DateParseLocal(dateISO) == dateISO * 24 - tz

(* ------------------------- the external store ------------------------- *)

NoSession == ""
NoAlert == ""
\* The members who sign in on this browser.
Users == {"u1", "u2"}
\* gender: g || null as the profiles table holds it.
NullGender == "null"

\* What a store request returns: { data, error }.
Ok(data) == [ok |-> TRUE, data |-> data]
Failure == [ok |-> FALSE, data |-> << >>]

\* The rows of the table with the conflict key (user_id, date) of `row`.
SameKey(table, row) ==
    { r \in table : r.user_id = row.user_id /\ r.date = row.date }

\* from('entries').insert(row), as the first revision wrote entries.
InsertEntry(table, row) == table \cup {row}

\* from('entries').upsert(row, { onConflict: ['user_id', 'date'] })
UpsertEntry(table, row) == (table \ SameKey(table, row)) \cup {row}

\* from('entries').select('*').order('date', { ascending: true }): the rows
\* in ascending date order, rows of one date in any order.
RECURSIVE FetchEntries(_)
FetchEntries(table) ==
    IF table = {} THEN { << >> }
    ELSE UNION { { <<r>> \o s : s \in FetchEntries(table \ {r}) } :
                 r \in { e \in table : \A o \in table : e.date <= o.date } }

\* from('profiles').select('name, gender').eq('id', uid).maybeSingle()
FetchProfile(table, uid) == table[uid]

\* from('profiles').upsert({ id, name, gender })
UpsertProfile(table, uid, row) == [table EXCEPT ![uid] = <<row>>]

\* What the two select requests can return, answered (ok) or failed.
SelectEntries(table, ok) ==
    IF ok THEN { Ok(data) : data \in FetchEntries(table) } ELSE { Failure }

SelectProfile(table, uid, ok) ==
    IF ok THEN Ok(FetchProfile(table, uid)) ELSE Failure

\* A falsy value of a nullable gender.
NoGender(g) == g \in {"", NullGender}

(* ------------------------- effects of the App ------------------------- *)

\* The rows of `ents` that belong to user u.
MineOfAnyone(ents, u) == ents

MineOf(ents, u) == SelectSeq(ents, LAMBDA e : e.user_id = u)

\* The first position of s with that date, 0 if none (Array.find).
RECURSIVE FirstWithDate(_, _, _)
FirstWithDate(s, dateISO, i) ==
    IF i > Len(s) THEN 0
    ELSE IF s[i].date = dateISO THEN i ELSE FirstWithDate(s, dateISO, i + 1)

\* sort by date ascending (stable), then pop: the last of the rows with the
\* latest date; << >> when there is no row.
LastByDate(s) ==
    IF s = << >> THEN << >>
    ELSE LET i == CHOOSE k \in DOMAIN s :
                    /\ \A j \in DOMAIN s : s[j].date <= s[k].date
                    /\ \A j \in DOMAIN s : j > k => s[j].date < s[k].date
         IN <<s[i]>>

\* The prefill effect: the value and notes fields after the selected date,
\* the session or the entries changed.
Prefill(sel, u, ents, val, notes) ==
    IF u = NoSession THEN [val |-> val, notes |-> notes]
    ELSE
    LET targetISO == isoLocal(sel)
        mine == MineOf(ents, u)
        existing == FirstWithDate(mine, targetISO, 1)
        mov == movementForDate(sel)
        prior == LastByDate(SelectSeq(mine,
                    LAMBDA e : e.movement = mov.name /\ e.date < targetISO))
    IN IF existing # 0
       THEN [val |-> IF mine[existing].value.kind # "null"
                     THEN NumberToString(mine[existing].value) ELSE << >>,
             notes |-> OrElse(mine[existing].notes, << >>)]
       ELSE [val |-> << >>,
             notes |-> IF prior = << >> THEN << >> ELSE OrElse(prior[1].notes, << >>)]

\* The profile part of the load effect: the local name and gender after
\* the profile request returned pRes.
NameAfterProfile(pRes) ==
    IF pRes.ok /\ pRes.data # << >> /\ OrElse(pRes.data[1].name, << >>) # << >>
    THEN pRes.data[1].name ELSE profName

GenderAfterProfile(pRes) ==
    IF pRes.ok /\ pRes.data # << >> /\ ~NoGender(pRes.data[1].gender)
    THEN pRes.data[1].gender ELSE profGender

\* localStorage after the load effect: the profile row's fields, unless the
\* local name or gender changed and the mirror effect wrote them again.
MirrorAfterProfile(pRes) ==
    IF pRes.ok /\ pRes.data # << >>
    THEN IF NameAfterProfile(pRes) # profName \/ GenderAfterProfile(pRes) # profGender
         THEN [name |-> NameAfterProfile(pRes), gender |-> GenderAfterProfile(pRes)]
         ELSE [name |-> OrElse(pRes.data[1].name, << >>),
               gender |-> IF NoGender(pRes.data[1].gender) THEN ""
                          ELSE pRes.data[1].gender]
    ELSE mirror

\* The requests of a handler that failed.
FailedOf(eRes, pRes) ==
    (IF eRes.ok THEN {} ELSE {"entries select"})
        \cup (IF pRes.ok THEN {} ELSE {"profiles select"})

\* The load effect for session u: both requests, then the prefill effect.
LoadEffect(u, eRes, pRes) ==
    LET data == IF eRes.ok THEN eRes.data ELSE << >>
        fill == Prefill(selectedDate, u, data, inputVal, inputNotes) IN
    /\ entries' = data
    /\ profName' = NameAfterProfile(pRes)
    /\ profGender' = GenderAfterProfile(pRes)
    /\ mirror' = MirrorAfterProfile(pRes)
    /\ inputVal' = fill.val
    /\ inputNotes' = fill.notes
    /\ failed' = FailedOf(eRes, pRes)
    /\ alert' = NoAlert

(* ------------------------- what the members type ---------------------- *)

\* What is typed into the value field: "0", "-1.25", and a 1 followed by
\* 309 zeros.
RawValues ==
    { Runs(<<"0">>), Runs(<<"-", "1", ".", "2", "5">>),
      <<Run("1", 1), Run("0", MaxFiniteDigits)>> }
\* The notes that are typed: " ok", which is saved trimmed.
TypedNotes == { <<" ", "o", "k">> }
TypedNames == { << >>, <<"Z", "e", "d", " ">> }
\* The days of January 2026 that are clicked: the last day of the November
\* cycle, the first day after it, and the first day of the January cycle.
SaveDays == {4, 5, 12}
\* The days of January 2026 clicked when notes are carried forward: the
\* last Sunday of the November cycle and two Mondays of the January cycle.
PrefillDays == {4, 12, 19}
\* The days of January 2026 on which another member saves, with notes.
OtherDays == {12, 19}
Theirs == <<"t", "h", "e", "i", "r", "s">>

(* ------------------------------- actions ------------------------------- *)

\* The page of member u1 after construction, the mount effects and the
\* auth bootstrap: the browser holds u1's session and, in localStorage, the
\* profile u1 saved on an earlier visit; nothing is loaded yet.
Init ==
    /\ tz \in TZOffsets
    /\ now \in NowInstants
    /\ monthDate = LocalYearMonth(now)
    /\ selectedDate = now
    /\ lbMovementName = InitialLbMovementName
    /\ entries = << >>
    /\ session = "u1"
    /\ profName = Al
    /\ profGender = "male"
    /\ mirror = [name |-> Al, gender |-> "male"]
    /\ profileOpen = FALSE
    /\ inputVal = << >>
    /\ inputNotes = << >>
    /\ store = {}
    /\ profiles = [u \in Users |->
                     IF u = "u1" THEN <<[name |-> Al, gender |-> "male"]>> ELSE << >>]
    /\ failed = {}
    /\ alert = NoAlert
    /\ saved = [latest |-> << >>, replaced |-> FALSE]
    /\ pending = {}
    /\ authEffects = <<[phase |-> "subscribed", cleaned |-> FALSE, active |-> TRUE]>>

\* A handler that sends no request and shows no message.
Quiet == failed' = {} /\ alert' = NoAlert

\* The calendar's previous-month button.
PrevMonth ==
    /\ UNCHANGED asyncVars
    /\ session # NoSession
    /\ MonthNo(monthDate) > FirstMonth
    /\ monthDate' = IF monthDate.m = 1 THEN [y |-> monthDate.y - 1, m |-> 12]
                    ELSE [y |-> monthDate.y, m |-> monthDate.m - 1]
    /\ Quiet
    /\ UNCHANGED <<tz, now, selectedDate, lbMovementName, entries>>
    /\ UNCHANGED <<session, profName, profGender, mirror, profileOpen,
                   inputVal, inputNotes, store, profiles, saved>>

\* The calendar's next-month button.
NextMonth ==
    /\ UNCHANGED asyncVars
    /\ session # NoSession
    /\ MonthNo(monthDate) < LastMonth
    /\ monthDate' = IF monthDate.m = 12 THEN [y |-> monthDate.y + 1, m |-> 1]
                    ELSE [y |-> monthDate.y, m |-> monthDate.m + 1]
    /\ Quiet
    /\ UNCHANGED <<tz, now, selectedDate, lbMovementName, entries>>
    /\ UNCHANGED <<session, profName, profGender, mirror, profileOpen,
                   inputVal, inputNotes, store, profiles, saved>>

\* A click on day d of the month shown, and the prefill effect it starts.
SelectDate(d) ==
    /\ UNCHANGED asyncVars
    /\ session # NoSession
    /\ d \in 1..DaysInMonth(monthDate.y, monthDate.m)
    /\ selectedDate' = DateLocal(monthDate.y, monthDate.m, d)
    /\ LET fill == Prefill(DateLocal(monthDate.y, monthDate.m, d), session,
                           entries, inputVal, inputNotes) IN
       /\ inputVal' = fill.val
       /\ inputNotes' = fill.notes
    /\ Quiet
    /\ UNCHANGED <<tz, now, monthDate, lbMovementName, entries>>
    /\ UNCHANGED <<session, profName, profGender, mirror, profileOpen,
                   store, profiles, saved>>

\* The leaderboard dropdown.
SetLbMovementName(i) ==
    /\ UNCHANGED asyncVars
    /\ session # NoSession
    /\ i \in DOMAIN leaderboardOptions
    /\ lbMovementName' = leaderboardOptions[i].name
    /\ Quiet
    /\ UNCHANGED <<tz, now, monthDate, selectedDate, entries>>
    /\ UNCHANGED <<session, profName, profGender, mirror, profileOpen,
                   inputVal, inputNotes, store, profiles, saved>>

\* The load effect of the session, both requests answered, the entries
\* request with `data`.
LoadEntries(data) ==
    /\ UNCHANGED asyncVars
    /\ session # NoSession
    /\ LoadEffect(session, Ok(data), Ok(FetchProfile(profiles, session)))
    /\ UNCHANGED <<tz, now, monthDate, selectedDate, lbMovementName>>
    /\ UNCHANGED <<session, profileOpen, store, profiles, saved>>

\* The load effect run again (the auth listener sets a refreshed session)
\* when other members have written one more row.
RefetchEntries(row) ==
    /\ UNCHANGED asyncVars
    /\ session # NoSession
    /\ AddedCount(entries) < MaxAdded
    /\ LoadEffect(session, Ok(Append(entries, row)),
                  Ok(FetchProfile(profiles, session)))
    /\ UNCHANGED <<tz, now, monthDate, selectedDate, lbMovementName>>
    /\ UNCHANGED <<session, profileOpen, store, profiles, saved>>

\* The load effect with at least one of its two requests failing.
LoadFails(eOk, pOk) ==
    /\ UNCHANGED asyncVars
    /\ session # NoSession
    /\ ~(eOk /\ pOk)
    /\ \E eRes \in SelectEntries(store, eOk) :
         LoadEffect(session, eRes, SelectProfile(profiles, session, pOk))
    /\ UNCHANGED <<tz, now, monthDate, selectedDate, lbMovementName>>
    /\ UNCHANGED <<session, profileOpen, store, profiles, saved>>

\* The Sign Out button.  No effect runs without a session.
SignOut ==
    /\ UNCHANGED asyncVars
    /\ session # NoSession
    /\ session' = NoSession
    /\ Quiet
    /\ UNCHANGED calVars
    /\ UNCHANGED <<profName, profGender, mirror, profileOpen, inputVal,
                   inputNotes, store, profiles, saved>>

\* verifyCode succeeds for member u; the load effect of the new session
\* follows, its requests succeeding or not.
SignIn(u, eOk, pOk) ==
    /\ UNCHANGED asyncVars
    /\ session = NoSession
    /\ u \in Users
    /\ session' = u
    /\ \E eRes \in SelectEntries(store, eOk) :
         LoadEffect(u, eRes, SelectProfile(profiles, u, pOk))
    /\ UNCHANGED <<tz, now, monthDate, selectedDate, lbMovementName>>
    /\ UNCHANGED <<profileOpen, store, profiles, saved>>

\* Typing into the value field.
TypeValue(raw) ==
    /\ UNCHANGED asyncVars
    /\ session # NoSession
    /\ inputVal' = sanitize(raw)
    /\ Quiet
    /\ UNCHANGED calVars
    /\ UNCHANGED <<session, profName, profGender, mirror, profileOpen,
                   inputNotes, store, profiles, saved>>

\* Typing into the notes field (disabled on a TBD day).
TypeNotes(text) ==
    /\ UNCHANGED asyncVars
    /\ session # NoSession
    /\ movementForDate(selectedDate).name # "TBD"
    /\ inputNotes' = text
    /\ Quiet
    /\ UNCHANGED calVars
    /\ UNCHANGED <<session, profName, profGender, mirror, profileOpen,
                   inputVal, store, profiles, saved>>

\* The alert texts of saveEntry; a store error shows error.message.
ErrorMessage == "error.message"

\* mov.name === 'TBD' : entry is disabled on this date.
EntryDisabledNever(mov) == FALSE

EntryDisabled(mov) == mov.name = "TBD"

\* The row saveEntry builds, as the upsert request carries it.
EntryRow(v, notes) ==
    LET mov == movementForDate(selectedDate) IN
    [user_id |-> session,
     date |-> isoLocal(selectedDate),
     movement |-> mov.name,
     value |-> JsonNumber(v),
     unit |-> mov.unit,
     name |-> Trim(profName),
     gender |-> profGender,
     notes |-> OrElse(notes, NullName)]

\* The history after the store accepted `row`.
SavedAfter(row) ==
    LET key == <<row.user_id, row.date>> IN
    [latest |-> [k \in DOMAIN saved.latest \cup {key} |->
                    IF k = key THEN row ELSE saved.latest[k]],
     replaced |-> \/ saved.replaced
                  \/ key \in DOMAIN saved.latest /\ saved.latest[key] # row]

\* The Save button: saveEntry.  upOk and fetchOk say whether the store
\* accepts the upsert and answers the select that follows it.
SaveEntry(upOk, fetchOk) ==
    /\ UNCHANGED asyncVars
    /\ UNCHANGED <<tz, now, monthDate, selectedDate, lbMovementName>>
    /\ UNCHANGED <<session, profName, profGender, mirror, profiles>>
    /\ IF session = NoSession
       THEN /\ alert' = "Please sign in first (use code)."
            /\ failed' = {}
            /\ UNCHANGED <<entries, profileOpen, inputVal, inputNotes, store, saved>>
       ELSE IF Trim(profName) = << >> \/ profGender = ""
       THEN /\ profileOpen' = TRUE
            /\ Quiet
            /\ UNCHANGED <<entries, inputVal, inputNotes, store, saved>>
       ELSE IF EntryDisabled(movementForDate(selectedDate))
       THEN /\ alert' = "This date is not in an active cycle yet. Entry is disabled."
            /\ failed' = {}
            /\ UNCHANGED <<entries, profileOpen, inputVal, inputNotes, store, saved>>
       ELSE IF NotPositive(parseFloat(inputVal))
       THEN /\ alert' = "Enter a positive number."
            /\ failed' = {}
            /\ UNCHANGED <<entries, profileOpen, inputVal, inputNotes, store, saved>>
       ELSE LET row == EntryRow(parseFloat(inputVal), Trim(inputNotes))
                newStore == UpsertEntry(store, row) IN
            IF ~upOk
            THEN /\ alert' = ErrorMessage
                 /\ failed' = {"entries upsert"}
                 /\ inputVal' = << >>
                 /\ inputNotes' = << >>
                 /\ UNCHANGED <<entries, profileOpen, store, saved>>
            ELSE /\ store' = newStore
                 /\ saved' = SavedAfter(row)
                 /\ alert' = NoAlert
                 /\ failed' = IF fetchOk THEN {} ELSE {"entries select"}
                 /\ \E got \in IF fetchOk THEN FetchEntries(newStore) ELSE { << >> } :
                      LET fill == Prefill(selectedDate, session, got, << >>, << >>) IN
                      /\ entries' = got
                      /\ inputVal' = fill.val
                      /\ inputNotes' = fill.notes
                 /\ UNCHANGED profileOpen

\* The Profile button.
OpenProfile ==
    /\ UNCHANGED asyncVars
    /\ session # NoSession
    /\ profileOpen' = TRUE
    /\ Quiet
    /\ UNCHANGED calVars
    /\ UNCHANGED <<session, profName, profGender, mirror, inputVal, inputNotes,
                   store, profiles, saved>>

\* The modal's Close button.
CloseProfile ==
    /\ UNCHANGED asyncVars
    /\ session # NoSession
    /\ profileOpen
    /\ profileOpen' = FALSE
    /\ Quiet
    /\ UNCHANGED calVars
    /\ UNCHANGED <<session, profName, profGender, mirror, inputVal, inputNotes,
                   store, profiles, saved>>

\* Typing into the modal's name field; the mirror effect follows.
SetName(text) ==
    /\ UNCHANGED asyncVars
    /\ session # NoSession
    /\ profileOpen
    /\ profName' = text
    /\ mirror' = IF text # profName THEN [name |-> text, gender |-> profGender]
                 ELSE mirror
    /\ Quiet
    /\ UNCHANGED calVars
    /\ UNCHANGED <<session, profGender, profileOpen, inputVal, inputNotes,
                   store, profiles, saved>>

\* The modal's gender select; the mirror effect follows.
SetGender(g) ==
    /\ UNCHANGED asyncVars
    /\ session # NoSession
    /\ profileOpen
    /\ profGender' = g
    /\ mirror' = IF g # profGender THEN [name |-> profName, gender |-> g]
                 ELSE mirror
    /\ Quiet
    /\ UNCHANGED calVars
    /\ UNCHANGED <<session, profName, profileOpen, inputVal, inputNotes,
                   store, profiles, saved>>

\* The modal's Save Profile button: saveProfile.
SaveProfile(upOk) ==
    /\ UNCHANGED asyncVars
    /\ session # NoSession
    /\ profileOpen
    /\ IF upOk
       THEN /\ profiles' = UpsertProfile(profiles, session,
                              [name |-> OrElse(Trim(profName), NullName),
                               gender |-> IF profGender = "" THEN NullGender
                                          ELSE profGender])
            /\ alert' = "Profile saved!"
            /\ failed' = {}
            /\ profileOpen' = FALSE
       ELSE /\ alert' = ErrorMessage
            /\ failed' = {"profiles upsert"}
            /\ UNCHANGED <<profiles, profileOpen>>
    /\ UNCHANGED calVars
    /\ UNCHANGED <<session, profName, profGender, mirror, inputVal, inputNotes,
                   store, saved>>

\* Another member saves an entry from another browser: the table changes,
\* this page does not.
OtherMemberSaves(d) ==
    LET day == DateLocal(2026, 1, d)
        mov == movementForDate(day)
        row == [user_id |-> OtherMember,
                date |-> isoLocal(day),
                movement |-> mov.name,
                value |-> Num(3000),
                unit |-> mov.unit,
                name |-> Member,
                gender |-> "female",
                notes |-> Theirs] IN
    /\ ~EntryDisabled(mov)
    /\ row \notin store
    /\ UNCHANGED asyncVars
    /\ store' = UpsertEntry(store, row)
    /\ saved' = SavedAfter(row)
    /\ UNCHANGED calVars
    /\ UNCHANGED <<session, profName, profGender, mirror, profileOpen, inputVal,
                   inputNotes, profiles, failed, alert>>

(* --------------------- saveEntry, await by await ---------------------- *)

\* The number of saveEntry calls that may wait for the store at a time.
MaxCalls == 2

\* saveEntry up to its first await: the checks, the inputs cleared, the
\* upsert request sent.
SaveEntryCall ==
    /\ Cardinality(pending) < MaxCalls
    /\ UNCHANGED calVars
    /\ UNCHANGED <<session, profName, profGender, mirror, store, profiles, saved>>
    /\ UNCHANGED authEffects
    /\ failed' = {}
    /\ IF session = NoSession
       THEN /\ alert' = "Please sign in first (use code)."
            /\ UNCHANGED <<profileOpen, inputVal, inputNotes, pending>>
       ELSE IF Trim(profName) = << >> \/ profGender = ""
       THEN /\ profileOpen' = TRUE
            /\ alert' = NoAlert
            /\ UNCHANGED <<inputVal, inputNotes, pending>>
       ELSE IF EntryDisabled(movementForDate(selectedDate))
       THEN /\ alert' = "This date is not in an active cycle yet. Entry is disabled."
            /\ UNCHANGED <<profileOpen, inputVal, inputNotes, pending>>
       ELSE IF NotPositive(parseFloat(inputVal))
       THEN /\ alert' = "Enter a positive number."
            /\ UNCHANGED <<profileOpen, inputVal, inputNotes, pending>>
       ELSE /\ pending' = pending \cup
                   {[id |-> Least((1..MaxCalls) \ { c.id : c \in pending }),
                     row |-> EntryRow(parseFloat(inputVal), Trim(inputNotes)),
                     phase |-> "upsert",
                     data |-> << >>]}
            /\ inputVal' = << >>
            /\ inputNotes' = << >>
            /\ alert' = NoAlert
            /\ UNCHANGED profileOpen

\* The store carries out the upsert of call c and answers without error;
\* saveEntry goes on and sends the select.
StoreUpserts(c) ==
    /\ c \in pending
    /\ c.phase = "upsert"
    /\ store' = UpsertEntry(store, c.row)
    /\ saved' = SavedAfter(c.row)
    /\ pending' = (pending \ {c}) \cup {[c EXCEPT !.phase = "select"]}
    /\ UNCHANGED calVars
    /\ UNCHANGED <<session, profName, profGender, mirror, profileOpen, inputVal,
                   inputNotes, profiles, failed, alert>>
    /\ UNCHANGED authEffects

\* The store reads the table for the select of call c; the answer is on
\* its way.
StoreSelects(c) ==
    /\ c \in pending
    /\ c.phase = "select"
    /\ \E data \in FetchEntries(store) :
         pending' = (pending \ {c}) \cup {[c EXCEPT !.phase = "answer", !.data = data]}
    /\ UNCHANGED calVars
    /\ UNCHANGED appVars
    /\ UNCHANGED authEffects

\* The answer to the select of call c arrives: setEntries(data || []), and
\* the prefill effect that follows.
SaveEntryReturns(c) ==
    /\ c \in pending
    /\ c.phase = "answer"
    /\ pending' = pending \ {c}
    /\ entries' = c.data
    /\ LET fill == Prefill(selectedDate, session, c.data, inputVal, inputNotes) IN
       /\ inputVal' = fill.val
       /\ inputNotes' = fill.notes
    /\ UNCHANGED <<tz, now, monthDate, selectedDate, lbMovementName>>
    /\ UNCHANGED <<session, profName, profGender, mirror, profileOpen, store,
                   profiles, failed, alert, saved>>
    /\ UNCHANGED authEffects

(* --------------------------- the auth effect --------------------------- *)

\* The number of times the auth effect is mounted.
MaxMounts == 3

\* React runs the auth effect (again): a new instance starts its session
\* lookup; `sub` is not yet assigned.
MountAuth ==
    /\ Len(authEffects) < MaxMounts
    /\ \A i \in DOMAIN authEffects : authEffects[i].cleaned
    /\ authEffects' = Append(authEffects,
                          [phase |-> "lookup", cleaned |-> FALSE, active |-> FALSE])
    /\ UNCHANGED <<calVars, appVars, pending>>

\* React runs the cleanup of instance i: if (sub) sub.unsubscribe().
CleanupAuth(i) ==
    /\ i \in DOMAIN authEffects
    /\ ~authEffects[i].cleaned
    /\ authEffects' = [authEffects EXCEPT ![i] =
                          [phase |-> @.phase,
                           cleaned |-> TRUE,
                           active |-> IF @.phase = "subscribed" THEN FALSE ELSE @.active]]
    /\ UNCHANGED <<calVars, appVars, pending>>

\* The session lookup of instance i returns the session the page already
\* holds; the instance subscribes and assigns `sub`.
LookupReturns(i) ==
    /\ i \in DOMAIN authEffects
    /\ authEffects[i].phase = "lookup"
    /\ authEffects' = [authEffects EXCEPT ![i] =
                          [phase |-> "subscribed", cleaned |-> @.cleaned, active |-> TRUE]]
    /\ UNCHANGED <<calVars, appVars, pending>>

\* The subscription of instance i reports an auth event with session s:
\* setSession(s), and the load effect if s is a session.
AuthEvent(i, s) ==
    /\ i \in DOMAIN authEffects
    /\ authEffects[i].active
    /\ s # session
    /\ session' = s
    /\ IF s = NoSession
       THEN /\ Quiet
            /\ UNCHANGED <<entries, profName, profGender, mirror, inputVal, inputNotes>>
       ELSE \E eRes \in SelectEntries(store, TRUE) :
               LoadEffect(s, eRes, SelectProfile(profiles, s, TRUE))
    /\ UNCHANGED <<tz, now, monthDate, selectedDate, lbMovementName>>
    /\ UNCHANGED <<profileOpen, store, profiles, saved>>
    /\ UNCHANGED asyncVars

Next ==
    \/ PrevMonth
    \/ NextMonth
    \/ \E d \in 1..31 : SelectDate(d)
    \/ \E i \in 1..7 : SetLbMovementName(i)
    \/ \E data \in StoredSnapshots : LoadEntries(data)
    \/ \E row \in AddedRows : RefetchEntries(row)
    \/ \E data \in FetchEntries(store) : LoadEntries(data)
    \/ \E eOk, pOk \in BOOLEAN : LoadFails(eOk, pOk)
    \/ SignOut
    \/ \E u \in Users, eOk, pOk \in BOOLEAN : SignIn(u, eOk, pOk)
    \/ \E raw \in RawValues : TypeValue(raw)
    \/ \E text \in TypedNotes : TypeNotes(text)
    \/ \E upOk, fetchOk \in BOOLEAN : SaveEntry(upOk, fetchOk)
    \/ OpenProfile
    \/ CloseProfile
    \/ \E text \in TypedNames : SetName(text)
    \/ \E g \in {"", "male", "female"} : SetGender(g)
    \/ \E upOk \in BOOLEAN : SaveProfile(upOk)
    \/ \E d \in OtherDays : OtherMemberSaves(d)
    \/ SaveEntryCall
    \/ \E c \in pending : StoreUpserts(c)
    \/ \E c \in pending : StoreSelects(c)
    \/ \E c \in pending : SaveEntryReturns(c)
    \/ MountAuth
    \/ \E i \in 1..MaxMounts : CleanupAuth(i)
    \/ \E i \in 1..MaxMounts : LookupReturns(i)
    \/ \E i \in 1..MaxMounts, s \in Users \cup {NoSession} : AuthEvent(i, s)

Spec == Init /\ [][Next]_vars

\* The calendar alone: every time zone and clock reading, paging and
\* selecting days.
NextCalendar ==
    \/ PrevMonth
    \/ NextMonth
    \/ \E d \in 1..31 : SelectDate(d)

SpecCalendar == Init /\ [][NextCalendar]_vars

\* The leaderboard alone, for the movement the page opens with: a page
\* opened at UTC on the October cycle's last Saturday (a time movement) or
\* Sunday (a weight movement), loading and refetching entries.
InitLeaderboard ==
    /\ Init
    /\ tz = 0
    /\ now \in { DateParseUTC(2025, 11, 22) + 20, DateParseUTC(2025, 11, 23) + 15 }

NextLeaderboard ==
    \/ \E data \in StoredSnapshots : LoadEntries(data)
    \/ \E row \in AddedRows : RefetchEntries(row)

SpecLeaderboard == InitLeaderboard /\ [][NextLeaderboard]_vars

\* Saving entries: a page opened at UTC on 5 January 2026, a day between
\* the cycles; the members sign out and in, choose among three days of the
\* month, type a value and save, while the store answers or fails.
InitSave ==
    /\ Init
    /\ tz = 0
    /\ now = DateParseUTC(2026, 1, 5) + 12

NextSave ==
    \/ \E d \in SaveDays : SelectDate(d)
    \/ \E data \in FetchEntries(store) : LoadEntries(data)
    \/ \E eOk, pOk \in BOOLEAN : LoadFails(eOk, pOk)
    \/ SignOut
    \/ \E u \in Users, eOk, pOk \in BOOLEAN : SignIn(u, eOk, pOk)
    \/ \E raw \in RawValues : TypeValue(raw)
    \/ \E upOk, fetchOk \in BOOLEAN : SaveEntry(upOk, fetchOk)

SpecSave == InitSave /\ [][NextSave]_vars

\* Filling the inputs in: the page of SpecSave; the member signs out and
\* in, chooses among three days, types a value and notes and saves, while
\* another member saves too; the store answers every request.
NextPrefill ==
    \/ \E d \in PrefillDays : SelectDate(d)
    \/ \E data \in FetchEntries(store) : LoadEntries(data)
    \/ SignOut
    \/ SignIn("u1", TRUE, TRUE)
    \/ TypeValue(Runs(<<"2">>))
    \/ \E text \in TypedNotes : TypeNotes(text)
    \/ SaveEntry(TRUE, TRUE)
    \/ \E d \in OtherDays : OtherMemberSaves(d)

SpecPrefill == InitSave /\ [][NextPrefill]_vars

\* Saving in every time zone: the page opened at noon UTC of 5 January
\* 2026; the members sign out and in, choose among the days of SpecSave,
\* type a value and save, and the store accepts or refuses the upsert.
InitZones ==
    /\ Init
    /\ now = DateParseUTC(2026, 1, 5) + 12

NextZones ==
    \/ \E d \in SaveDays : SelectDate(d)
    \/ SignOut
    \/ \E u \in Users : SignIn(u, TRUE, TRUE)
    \/ \E raw \in RawValues : TypeValue(raw)
    \/ \E upOk \in BOOLEAN : SaveEntry(upOk, TRUE)

SpecZones == InitZones /\ [][NextZones]_vars

\* Saves that overlap: the page of SpecSave; the member chooses between
\* two days, types a value and saves, and every request is answered
\* without error, in any order.
RaceDays == {4, 12}

NextRace ==
    \/ \E d \in RaceDays : SelectDate(d)
    \/ TypeValue(Runs(<<"2">>))
    \/ SaveEntryCall
    \/ \E c \in pending : StoreUpserts(c)
    \/ \E c \in pending : StoreSelects(c)
    \/ \E c \in pending : SaveEntryReturns(c)

SpecRace == InitSave /\ [][NextRace]_vars

\* The auth effect mounted, cleaned up and mounted again, as StrictMode
\* and an unmount do, while the members sign in and out and the
\* subscriptions report it.
NextAuth ==
    \/ MountAuth
    \/ \E i \in 1..MaxMounts : CleanupAuth(i)
    \/ \E i \in 1..MaxMounts : LookupReturns(i)
    \/ \E i \in 1..MaxMounts, s \in Users \cup {NoSession} : AuthEvent(i, s)
    \/ \E d \in SaveDays : SelectDate(d)

SpecAuth == InitSave /\ [][NextAuth]_vars

\* Editing the profile: the page of SpecSave; the members open the modal,
\* edit and save the profile, sign out and in, and the store answers or
\* fails.
NextProfile ==
    \/ OpenProfile
    \/ CloseProfile
    \/ \E text \in TypedNames : SetName(text)
    \/ \E g \in {"", "male", "female"} : SetGender(g)
    \/ \E upOk \in BOOLEAN : SaveProfile(upOk)
    \/ SignOut
    \/ \E u \in Users, pOk \in BOOLEAN : SignIn(u, TRUE, pOk)

SpecProfile == InitSave /\ [][NextProfile]_vars

(* ------------------------- the Database section ------------------------ *)

\* new Date(dateISO + 'T00:00:00') is local midnight of the day.
isWithinISOEndExclusive(dateISO, start, end) ==
    LET d == DateParseLocal(dateISO) IN d >= start /\ d < end

isWithinISO(dateISO, start, end) ==
    LET d == DateParseLocal(dateISO) IN d >= start /\ d <= end

\* myEntries: the rows of the snapshot that belong to the signed-in member.
myEntries ==
    IF session = NoSession THEN << >>
    ELSE SelectSeq(entries, LAMBDA e : e.user_id = session)

\* movementsFromTemplate: the template's movements in WEEKDAY_ORDER.
movementsFromTemplate(weekTemplate) ==
    LET present == SelectSeq(WEEKDAY_ORDER, LAMBDA wd : ObjHas(weekTemplate, wd)) IN
    [i \in DOMAIN present |->
        LET m == ObjGet(weekTemplate, present[i]) IN
        [weekday |-> present[i], name |-> m.name, unit |-> m.unit]]

\* Number(e.value): null becomes 0.
Number(value) == IF value.kind = "null" THEN Num(0) ELSE value

\* rows.sort((a, b) => a.date.localeCompare(b.date)): a stable sort; ISO
\* date strings compare as their days do.
DateInsert(sorted, r) ==
    LET before == { i \in DOMAIN sorted : sorted[i].date <= r.date }
        k == Cardinality(before) IN
    SubSeq(sorted, 1, k) \o <<r>> \o SubSeq(sorted, k + 1, Len(sorted))

RECURSIVE SortByDate(_, _)
SortByDate(rows, n) ==
    IF n = 0 THEN << >> ELSE DateInsert(SortByDate(rows, n - 1), rows[n])

ChartPoint(e) == [date |-> e.date, value |-> Number(e.value)]

\* The cycles DatabaseSection works with: <<cycle>> or << >> for null.
DatabaseCycles ==
    LET idx == getCurrentCycleIndex(now)
        n == Len(CYCLES) IN
    IF idx >= 0
    THEN [curr |-> <<CYCLES[idx + 1]>>,
          prev |-> IF idx > 0 THEN <<CYCLES[idx]>> ELSE << >>]
    ELSE IF n > 0
    THEN [curr |-> <<CYCLES[n]>>,
          prev |-> IF n > 1 THEN <<CYCLES[n - 1]>> ELSE << >>]
    ELSE [curr |-> << >>, prev |-> << >>]

\* The rows of one chart of the Current Cycle and Previous Cycle views.
CycleRows(cycle, movementName) ==
    LET b == getCycleBounds(cycle)
        kept == SelectSeq(myEntries,
                    LAMBDA e : /\ isWithinISO(e.date, b.start, b.end)
                               /\ e.movement = movementName)
        points == [i \in DOMAIN kept |-> ChartPoint(kept[i])] IN
    SortByDate(points, Len(points))

\* The rows of one chart of the All Cycles view.
AllRows(movementName) ==
    LET kept == SelectSeq(myEntries, LAMBDA e : e.movement = movementName)
        points == [i \in DOMAIN kept |-> ChartPoint(kept[i])] IN
    SortByDate(points, Len(points))

\* movementMap of the All Cycles view: the legacy movements, then every
\* cycle's movements whose name is not yet there (and is not TBD).
RECURSIVE MapAddAll(_, _, _, _)
MapAddAll(m, obj, i, overwrite) ==
    IF i > Len(obj) THEN m
    ELSE LET mov == obj[i].v
             sets == /\ mov.name # ""
                     /\ overwrite \/ (mov.name # "TBD" /\ ~MapHas(m, mov.name)) IN
         IF sets THEN MapAddAll(MapSet(m, mov.name, mov.unit), obj, i + 1, overwrite)
         ELSE MapAddAll(m, obj, i + 1, overwrite)

RECURSIVE MapAddCycles(_, _)
MapAddCycles(map, c) ==
    IF c > Len(CYCLES) THEN map
    ELSE MapAddCycles(MapAddAll(map, CYCLES[c].weekTemplate, 1, FALSE), c + 1)

movementMap == MapAddCycles(MapAddAll(<< >>, LEGACY_MOVEMENTS, 1, TRUE), 1)

movementList == [i \in DOMAIN movementMap |->
                    [name |-> movementMap[i].k, unit |-> movementMap[i].v]]

\* Number.prototype.toLocaleString with minimumFractionDigits 0 and
\* maximumFractionDigits maxFrac, of a non-negative number given in
\* hundredths: rounded half up to maxFrac decimals, trailing zeros dropped.
\* Digit grouping is left out (the values met here are below 1000).
toLocaleString(hundredths, maxFrac) ==
    LET scale == IF maxFrac = 0 THEN 100 ELSE IF maxFrac = 1 THEN 10 ELSE 1
        unit == 100 \div scale
        rounded == (hundredths + scale \div 2) \div scale
        f == rounded % unit
        fracDigits == IF maxFrac = 0 THEN << >>
                      ELSE IF maxFrac = 1 THEN <<Digits[f + 1]>>
                      ELSE <<Digits[(f \div 10) + 1], Digits[(f % 10) + 1]>>
        kept == DropTrailingZeros(fracDigits) IN
    NatToString(rounded \div unit)
        \o (IF kept = << >> THEN << >> ELSE <<".">> \o kept)

\* formatExactValue, the formatter of the charts' tooltips.  Whole numbers
\* beyond MaxExactDigits are not followed digit by digit.
formatExactValue(val) ==
    LET n == Number(val) IN
    IF n.kind \in {"NaN", "Infinity"} THEN << >>
    ELSE IF n.kind = "large" THEN <<"large">>
    ELSE LET truncated == n.milli \div 10
             hasDecimals == truncated % 100 > 0
             oneDecimal == (truncated \div 10) % 10 > 0
             minFrac == 0
             maxFrac == IF hasDecimals THEN (IF oneDecimal THEN 1 ELSE 2) ELSE 0 IN
         toLocaleString(truncated, maxFrac)

(* ====================== the cycle calendar (C1-C4) ===================== *)

\* The local calendar day of `d` lies in the inclusive range that
\* getCycleBounds computes for the i-th cycle.
DateInCycle(d, i) ==
    LET b == getCycleBounds(CYCLES[i]) IN
    /\ LocalDay(b.start) <= LocalDay(d)
    /\ LocalDay(d) <= LocalDay(b.end)

\* C1: for a selected date inside a cycle's inclusive [start, end] range,
\* movementForDate returns exactly the movement that cycle's weekTemplate
\* maps to the date's weekday name, and it returns the TBD sentinel only
\* when the weekday has no mapping there.
C1_MovementInsideCycle ==
    \A i \in DOMAIN CYCLES :
        DateInCycle(selectedDate, i) =>
            LET template == CYCLES[i].weekTemplate
                weekday == dayName(selectedDate)
                result == movementForDate(selectedDate)
            IN /\ ObjHas(template, weekday) => result = ObjGet(template, weekday)
               /\ result.name = "TBD" => ~ObjHas(template, weekday)

\* The page was opened, west of Greenwich, in the morning of the day the
\* November cycle starts there, and shows that cycle's Sunday movement.
C1_Witness ==
    /\ tz < 0
    /\ selectedDate # startOfDay(selectedDate)
    /\ DateInCycle(selectedDate, 4)
    /\ LocalDay(selectedDate) = LocalDay(getCycleBounds(CYCLES[4]).start)
    /\ movementForDate(selectedDate).name = "Landmine Clean + Jerk"

\* C2: for a selected date outside the inclusive range of every cycle
\* (before the first, after the last, or in a gap), movementForDate returns
\* the TBD sentinel: name 'TBD', unit ''.
C2_TBDOutsideCycles ==
    (\A i \in DOMAIN CYCLES : ~DateInCycle(selectedDate, i)) =>
        /\ movementForDate(selectedDate).name = "TBD"
        /\ movementForDate(selectedDate).unit = ""

\* A day of the gap between the November and the January cycle is selected.
C2_Witness ==
    /\ LocalDay(selectedDate) = DayNumber(2026, 1, 8)
    /\ \A i \in DOMAIN CYCLES : ~DateInCycle(selectedDate, i)
    /\ movementForDate(selectedDate) = TBD

\* C4: the ranges getCycleBounds computes for CYCLES are pairwise disjoint
\* and in increasing date order, so at most one cycle contains the selected
\* date and the first-match loop of getCycleForDate returns that one.
C4_CyclesDisjointOrdered ==
    /\ \A i \in DOMAIN CYCLES :
           getCycleBounds(CYCLES[i]).start <= getCycleBounds(CYCLES[i]).end
    /\ \A i, j \in DOMAIN CYCLES :
           i < j => getCycleBounds(CYCLES[i]).end < getCycleBounds(CYCLES[j]).start
    /\ Cardinality({i \in DOMAIN CYCLES : DateInCycle(selectedDate, i)}) <= 1
    /\ \A i \in DOMAIN CYCLES :
           DateInCycle(selectedDate, i) => getCycleForDate(selectedDate) = <<CYCLES[i]>>

\* The first day of the October cycle, the day after the September
\* cycle's last, is selected and resolves to the October cycle.
C4_Witness ==
    /\ startOfDay(selectedDate) = getCycleBounds(CYCLES[3]).start
    /\ LocalDay(selectedDate) = LocalDay(getCycleBounds(CYCLES[2]).end) + 1
    /\ getCycleForDate(selectedDate) = <<CYCLES[3]>>

(* ========================= the leaderboard (C5-C10) ==================== *)

RecognizedGenders == {"male", "female"}

\* The normalized person key of a row: the trimmed name, 'Member' when it
\* is missing or blank.
PersonKey(e) ==
    LET t == IF e.name = NullName THEN << >> ELSE Trim(e.name)
    IN IF t = << >> THEN Member ELSE t

\* All configured movements: LEGACY_MOVEMENTS and every weekTemplate.
ConfiguredMovements ==
    {LEGACY_MOVEMENTS[j].v : j \in DOMAIN LEGACY_MOVEMENTS}
    \cup UNION {{CYCLES[i].weekTemplate[j].v : j \in DOMAIN CYCLES[i].weekTemplate} :
                    i \in DOMAIN CYCLES}

\* The configured movements whose unit is 'time': lower is better.
TimedMovements == {m.name : m \in {c \in ConfiguredMovements : c.unit = "time"}}

\* a is at least as good as b / strictly better than b, lower being better
\* or not.
AtLeastAsGood(a, b, timed) == IF timed THEN a <= b ELSE a >= b
StrictlyBetter(a, b, timed) == IF timed THEN a < b ELSE a > b

\* The entries of gender g for the selected movement, as [key, value].
Logged(g) ==
    {[key |-> PersonKey(entries[i]), value |-> entries[i].value] :
        i \in {k \in DOMAIN entries :
                 entries[k].movement = lbMovementName /\ entries[k].gender = g}}

Keys(rows) == {PersonKey(rows[i]) : i \in DOMAIN rows}

\* C5: neither list of the leaderboard holds two rows with the same
\* normalized person key.
C5_OneRowPerPerson ==
    LET lb == leaderboard IN
    \A g \in RecognizedGenders :
        LET keys == [i \in DOMAIN lb[g] |-> PersonKey(lb[g][i])] IN
        \A i, j \in DOMAIN keys : i # j => keys[i] # keys[j]

\* One person logged the movement twice, under two spellings of the name,
\* and the list holds that person and another one.
C5_Witness ==
    \E g \in RecognizedGenders :
        /\ Len(leaderboard[g]) >= 2
        /\ \E i, j \in DOMAIN entries :
               /\ i # j
               /\ entries[i].movement = lbMovementName
               /\ entries[j].movement = lbMovementName
               /\ entries[i].gender = g
               /\ entries[j].gender = g
               /\ entries[i].name # entries[j].name
               /\ PersonKey(entries[i]) = PersonKey(entries[j])

\* C6: in each list adjacent rows are ordered by value in the movement's
\* direction: descending for a higher-is-better movement, ascending for a
\* lower-is-better one.
C6_OrderedByValue ==
    LET lb == leaderboard
        timed == lbMovementName \in TimedMovements
    IN \A g \in RecognizedGenders :
           \A i \in DOMAIN lb[g] :
               i < Len(lb[g]) => AtLeastAsGood(lb[g][i].value, lb[g][i + 1].value, timed)

\* A time movement whose list was built from rows that arrived out of
\* order: a later row of another person has the smaller value, and the
\* list starts with the smallest value.
C6_Witness ==
    /\ lbMovementName \in TimedMovements
    /\ \E g \in RecognizedGenders :
           /\ Len(leaderboard[g]) >= 2
           /\ leaderboard[g][1].value < leaderboard[g][Len(leaderboard[g])].value
           /\ \E i, j \in DOMAIN entries :
                  /\ i < j
                  /\ entries[i].movement = lbMovementName
                  /\ entries[j].movement = lbMovementName
                  /\ entries[i].gender = g
                  /\ entries[j].gender = g
                  /\ entries[j].value < entries[i].value
                  /\ PersonKey(entries[i]) # PersonKey(entries[j])

\* C7: the value of every row is the best value among the entries of that
\* person, gender and movement: the maximum, or the minimum for a
\* lower-is-better movement.
C7_RowIsPersonalBest ==
    LET lb == leaderboard
        timed == lbMovementName \in TimedMovements
    IN \A g \in RecognizedGenders :
           LET logged == Logged(g) IN
           \A i \in DOMAIN lb[g] :
               LET key == PersonKey(lb[g][i]) IN
               /\ [key |-> key, value |-> lb[g][i].value] \in logged
               /\ \A e \in logged :
                      e.key = key => AtLeastAsGood(lb[g][i].value, e.value, timed)

\* On a time movement a person logged 2 and later 1, and that person's row
\* shows 1.
C7_Witness ==
    /\ lbMovementName \in TimedMovements
    /\ \E g \in RecognizedGenders :
           \E r \in DOMAIN leaderboard[g] :
               /\ leaderboard[g][r].value = 1
               /\ \E i, j \in DOMAIN entries :
                      /\ i < j
                      /\ entries[i].movement = lbMovementName
                      /\ entries[j].movement = lbMovementName
                      /\ entries[i].gender = g
                      /\ entries[j].gender = g
                      /\ PersonKey(entries[i]) = PersonKey(leaderboard[g][r])
                      /\ PersonKey(entries[j]) = PersonKey(leaderboard[g][r])
                      /\ entries[i].value = 2
                      /\ entries[j].value = 1

Range(s) == {s[i] : i \in DOMAIN s}

\* C8: every row of the male (female) list is an entry with gender 'male'
\* ('female') and the selected movement, and the entries with any other
\* gender are in neither list and change neither list.
C8_OnlyRecognizedGenders ==
    LET lb == leaderboard
        stored == Range(entries)
    IN /\ \A g \in RecognizedGenders :
              \A i \in DOMAIN lb[g] :
                  /\ lb[g][i] \in stored
                  /\ lb[g][i].gender = g
                  /\ lb[g][i].movement = lbMovementName
       /\ lb = leaderboardOf(
                   SelectSeq(entries, LAMBDA e : e.gender \in RecognizedGenders),
                   lbMovementName)

\* The snapshot holds a row of the selected movement without a gender,
\* whose person has no other row, next to a woman's row that is listed.
C8_Witness ==
    /\ \E i \in DOMAIN entries :
           /\ entries[i].movement = lbMovementName
           /\ entries[i].gender = ""
           /\ \A j \in DOMAIN entries :
                  PersonKey(entries[j]) = PersonKey(entries[i]) =>
                      entries[j].gender = ""
    /\ leaderboard.female # << >>

\* For the configured movements: the unit found by name is the movement's
\* unit, lower-is-better holds exactly for unit 'time', and the allow-list
\* names only such movements; a name configured nowhere has no unit and is
\* higher-is-better.
LowerIsBetterOfConfigured ==
    /\ \A m \in ConfiguredMovements :
           /\ getMovementUnitByName(m.name) = m.unit
           /\ lowerIsBetter(m.name) <=> m.unit = "time"
    /\ LOWER_BETTER_MOVES \subseteq TimedMovements
    /\ getMovementUnitByName("Sled Push") = ""
    /\ ~lowerIsBetter("Sled Push")

\* C9: a movement is lower-is-better exactly when the unit found for its
\* name is 'time' or its name is in the allow-list; for the configured
\* movements that is exactly for those with unit 'time', and a name
\* configured nowhere is higher-is-better.
C9_LowerIsBetterRule ==
    /\ LowerIsBetterOfConfigured
    /\ lowerIsBetter(lbMovementName) <=> lbMovementName \in TimedMovements
    /\ leaderboard.unit = "time" <=> lbMovementName \in TimedMovements

\* The leaderboard of a time movement is shown with two different values,
\* the smaller one first.
C9_Witness ==
    /\ lowerIsBetter(lbMovementName)
    /\ leaderboard.unit = "time"
    /\ Len(leaderboard.male) >= 2
    /\ leaderboard.male[1].value < leaderboard.male[2].value

Min2(a, b) == IF a < b THEN a ELSE b

\* C10: each list has min(5, persons of that gender with an entry for the
\* movement) rows, and no person left out has a best value strictly better
\* than the value of a listed row.
C10_TopFiveAreBest ==
    LET lb == leaderboard
        timed == lbMovementName \in TimedMovements
    IN \A g \in RecognizedGenders :
           LET logged == Logged(g)
               persons == {e.key : e \in logged}
               listed == Keys(lb[g])
           IN /\ Len(lb[g]) = Min2(5, Cardinality(persons))
              /\ \A e \in logged :
                     e.key \notin listed =>
                         \A i \in DOMAIN lb[g] :
                             ~StrictlyBetter(e.value, lb[g][i].value, timed)

\* More than five men logged the movement; five are listed, and a man who
\* arrived after the load displaced one who was loaded.
C10_Witness ==
    /\ Cardinality({e.key : e \in Logged("male")}) > 5
    /\ Len(leaderboard.male) = 5
    /\ \E i \in DOMAIN leaderboard.male :
           leaderboard.male[i] \notin Range(Crowd)
    /\ \E i \in DOMAIN Crowd :
           /\ Crowd[i].movement = lbMovementName
           /\ PersonKey(Crowd[i]) \notin Keys(leaderboard.male)

(* ================== order of the entry list (C11) ====================== *)

\* The list s with the rows at positions i and i + 1 exchanged.
SwapAt(s, i) ==
    [j \in 1..Len(s) |-> IF j = i THEN s[i + 1]
                         ELSE IF j = i + 1 THEN s[i] ELSE s[j]]

\* C11: the leaderboard depends only on the set of entries: the same
\* entries in another order (here: any two neighbours exchanged, which
\* generate every reordering) give the same male and female lists, row
\* for row, also when several persons have equal best values.
C11_OrderIndependent ==
    LET lb == leaderboard IN
    \A i \in 1..(Len(entries) - 1) :
        leaderboardOf(SwapAt(entries, i), lbMovementName) = lb

(* ===================== saving entries (C12-C16, C20) =================== *)

\* C12: after any sequence of accepted saves the entries table holds at
\* most one row for each (user_id, date), and that row is the one the
\* latest accepted save for the pair sent (movement, value, unit, name,
\* gender and notes).
C12_OneEntryPerUserAndDate ==
    /\ \A r1, r2 \in store :
         r1.user_id = r2.user_id /\ r1.date = r2.date => r1 = r2
    /\ store = { saved.latest[k] : k \in DOMAIN saved.latest }
    /\ \A k \in DOMAIN saved.latest :
         <<saved.latest[k].user_id, saved.latest[k].date>> = k

\* Two members have rows, one of them on two days, and some accepted save
\* changed the row an earlier save had written for its day.
C12_Witness ==
    /\ saved.replaced
    /\ \E r1, r2 \in store : r1.user_id = r2.user_id /\ r1.date # r2.date
    /\ \E r1, r2 \in store : r1.user_id # r2.user_id /\ r1.date = r2.date

(* ===================== days outside the cycles (C13) =================== *)

\* C13: a press of Save while the selected date's movement is the TBD
\* sentinel writes nothing: the entries table and the `entries` snapshot
\* are the same after the step as before it.
C13_TbdSaveWritesNothing ==
    [][(/\ movementForDate(selectedDate).name = "TBD"
        /\ \E upOk, fetchOk \in BOOLEAN : SaveEntry(upOk, fetchOk))
       => /\ store' = store
          /\ entries' = entries]_vars

\* A signed-in member with a complete profile and a positive number in the
\* value field has pressed Save on a day between the cycles.
C13_Witness ==
    /\ session # NoSession
    /\ Trim(profName) # << >>
    /\ profGender # ""
    /\ movementForDate(selectedDate).name = "TBD"
    /\ ~NotPositive(parseFloat(inputVal))
    /\ alert = "This date is not in an active cycle yet. Entry is disabled."

(* ================== what saveEntry accepts (C14) ======================= *)

\* C14: every row of the entries table has a positive finite value: the
\* upsert is sent only for an input that parses to such a number.
C14_OnlyPositiveFiniteWritten ==
    \A r \in store :
        /\ r.value.kind \in {"num", "large"}
        /\ r.value.kind = "num" => r.value.milli > 0

(* ==================== failures of the store (C15, C16) ================= *)

\* C15: a step in which the select on the entries table fails leaves the
\* `entries` snapshot as it was before the step.
C15_FailedReadKeepsSnapshot ==
    [][("entries select" \in failed') => entries' = entries]_vars

\* C16: whenever the last handler met a failed store request, a message is
\* on the screen.
C16_FailureShowsMessage ==
    failed # {} => alert # NoAlert

(* ================== whose profile an entry carries (C20) =============== *)

\* C20: every row a step adds to the entries table carries the name and
\* the gender of its owner's row of the profiles table.
C20_EntryCarriesStoredProfile ==
    [][\A r \in store' \ store :
          /\ profiles[r.user_id] # << >>
          /\ r.name = profiles[r.user_id][1].name
          /\ r.gender = profiles[r.user_id][1].gender]_vars

(* ==================== the series of the charts (C17) =================== *)

IsSortedByDate(rows) ==
    \A i, j \in DOMAIN rows : i < j => rows[i].date <= rows[j].date

\* The positions in `entries` of the signed-in member's rows for the
\* movement whose day lies between the cycle's first and last day.
OwnedInCycle(cycle, movementName) ==
    LET b == getCycleBounds(cycle) IN
    { i \in DOMAIN entries :
        /\ session # NoSession
        /\ entries[i].user_id = session
        /\ entries[i].movement = movementName
        /\ LocalDay(b.start) <= entries[i].date
        /\ entries[i].date <= LocalDay(b.end) }

\* `rows` has one point for each position of `from`, and nothing else.
OnePointEach(rows, from) ==
    \A p \in { rows[i] : i \in DOMAIN rows } \cup { ChartPoint(entries[i]) : i \in from } :
        Cardinality({ i \in DOMAIN rows : rows[i] = p })
            = Cardinality({ i \in from : ChartPoint(entries[i]) = p })

\* C17: each chart of the Current Cycle and Previous Cycle views has
\* exactly one point for each entry of the signed-in member with the
\* chart's movement and a date from the cycle's first day to its last day,
\* both included, and no other point; the points of every chart, those of
\* the All Cycles view too, are in ascending order of date.
C17_SeriesOfCycle ==
    LET dc == DatabaseCycles
        shown == dc.curr \o dc.prev IN
    /\ \A c \in DOMAIN shown :
         LET movs == movementsFromTemplate(shown[c].weekTemplate) IN
         \A k \in DOMAIN movs :
             LET rows == CycleRows(shown[c], movs[k].name) IN
             /\ OnePointEach(rows, OwnedInCycle(shown[c], movs[k].name))
             /\ IsSortedByDate(rows)
    /\ \A k \in DOMAIN movementList : IsSortedByDate(AllRows(movementList[k].name))

\* The snapshot holds rows of two members; the signed-in member's chart of
\* the previous cycle has a point on the cycle's last day and the chart of
\* the current cycle a point on its first day.
C17_Witness ==
    LET dc == DatabaseCycles IN
    /\ dc.curr # << >> /\ dc.prev # << >>
    /\ myEntries # << >> /\ Len(myEntries) < Len(entries)
    /\ \E k \in DOMAIN movementsFromTemplate(dc.prev[1].weekTemplate) :
         LET rows == CycleRows(dc.prev[1], movementsFromTemplate(dc.prev[1].weekTemplate)[k].name) IN
         \E i \in DOMAIN rows : rows[i].date = LocalDay(getCycleBounds(dc.prev[1]).end)
    /\ \E k \in DOMAIN movementsFromTemplate(dc.curr[1].weekTemplate) :
         LET rows == CycleRows(dc.curr[1], movementsFromTemplate(dc.curr[1].weekTemplate)[k].name) IN
         \E i \in DOMAIN rows : rows[i].date = LocalDay(getCycleBounds(dc.curr[1]).start)

(* ===================== the exact value shown (C18) ===================== *)

\* The decimal text of a number of hundredths, without trailing zeros.
HundredthsText(h) ==
    LET f == h % 100
        kept == DropTrailingZeros(<<Digits[(f \div 10) + 1], Digits[(f % 10) + 1]>>) IN
    NatToString(h \div 100) \o (IF kept = << >> THEN << >> ELSE <<".">> \o kept)

\* C18: for every point of the signed-in member's charts, formatExactValue
\* shows the value cut, not rounded, to two decimals: the text is that of
\* floor(value * 100) / 100.
C18_ExactValueTruncated ==
    \A i \in DOMAIN myEntries :
        LET v == ChartPoint(myEntries[i]).value IN
        v.kind = "num" => formatExactValue(v) = HundredthsText(v.milli \div 10)

(* ================= one name, one movement (C19) ======================== *)

\* LEGACY_MOVEMENTS followed by the weekTemplate of every cycle.
ConfiguredTemplates ==
    <<LEGACY_MOVEMENTS>> \o [i \in DOMAIN CYCLES |-> CYCLES[i].weekTemplate]

\* Two configured movements with the same name have the same unit, and
\* they stand in different templates only where both are the legacy one.
NamesIdentifyMovements ==
    \A s1, s2 \in DOMAIN ConfiguredTemplates :
        \A a \in DOMAIN ConfiguredTemplates[s1], b \in DOMAIN ConfiguredTemplates[s2] :
            LET m1 == ConfiguredTemplates[s1][a].v
                m2 == ConfiguredTemplates[s2][b].v IN
            m1.name = m2.name /\ m1.name # "TBD" =>
                /\ m1.unit = m2.unit
                /\ s1 # s2 => /\ ConfiguredTemplates[s1] = LEGACY_MOVEMENTS
                              /\ ConfiguredTemplates[s2] = LEGACY_MOVEMENTS

\* C19: a movement name identifies one movement across LEGACY_MOVEMENTS
\* and the templates of CYCLES (same name, same unit; a name in two
\* templates only where both are the legacy template); so for every entry
\* of the snapshot getMovementUnitByName and the chart of the All Cycles
\* view give the unit the entry was saved with.
C19_NameIdentifiesMovement ==
    /\ NamesIdentifyMovements
    /\ \A i \in DOMAIN entries :
         /\ getMovementUnitByName(entries[i].movement) = entries[i].unit
         /\ MapHas(movementMap, entries[i].movement)
         /\ MapGet(movementMap, entries[i].movement) = entries[i].unit

\* The snapshot holds entries of movements of two cycles.
C19_Witness ==
    \E i, j \in DOMAIN entries :
        /\ entries[i].movement # entries[j].movement
        /\ getCycleForDate(DateParseLocal(entries[i].date))
               # getCycleForDate(DateParseLocal(entries[j].date))

(* ================ the calendar dates of the cycles (C21) =============== *)

\* The first and the last calendar day stated for each cycle of CYCLES.
StatedRanges == <<
    [first |-> DayNumber(2025, 7, 6),   last |-> DayNumber(2025, 8, 31)],
    [first |-> DayNumber(2025, 9, 1),   last |-> DayNumber(2025, 10, 12)],
    [first |-> DayNumber(2025, 10, 13), last |-> DayNumber(2025, 11, 23)],
    [first |-> DayNumber(2025, 11, 24), last |-> DayNumber(2026, 1, 4)],
    [first |-> DayNumber(2026, 1, 12),  last |-> DayNumber(2026, 2, 22)] >>

\* C21: in every time zone the selected local calendar date is found in
\* the i-th cycle exactly when it lies between the cycle's stated first
\* and last day, both included; a cycle given by a week count w covers
\* 7 * w consecutive days that begin on the calendar day of its start.
C21_CyclesCoverStatedDates ==
    \A i \in DOMAIN CYCLES :
        LET b == getCycleBounds(CYCLES[i]) IN
        /\ (FirstCycleFrom(startOfDay(selectedDate), 1) = i)
               <=> /\ StatedRanges[i].first <= LocalDay(selectedDate)
                   /\ LocalDay(selectedDate) <= StatedRanges[i].last
        /\ "weeks" \in DOMAIN CYCLES[i] =>
               /\ LocalDay(b.start) = CYCLES[i].start \div 24
               /\ LocalDay(b.end) - LocalDay(b.start) + 1 = 7 * CYCLES[i].weeks

(* ===================== filling the inputs in (C22) ===================== *)

\* The text of a stored value; nothing for null.
ValueText(value) == IF value.kind = "null" THEN << >> ELSE NumberToString(value)

\* The pairs <<value input, notes input>> the claim allows for the selected
\* instant `sel`, the owner u and the snapshot `ents`.
ExpectedInputs(sel, u, ents) ==
    LET day == LocalDay(sel)
        owned == { i \in DOMAIN ents : ents[i].user_id = u }
        today == { i \in owned : ents[i].date = day }
        earlier == { i \in owned : /\ ents[i].movement = movementForDate(sel).name
                                   /\ ents[i].date < day }
        latest == { i \in earlier : \A j \in earlier : ents[j].date <= ents[i].date } IN
    IF today # {}
    THEN { <<ValueText(ents[i].value), OrElse(ents[i].notes, << >>)>> : i \in today }
    ELSE IF latest # {}
    THEN { << << >>, OrElse(ents[i].notes, << >>) >> : i \in latest }
    ELSE { << << >>, << >> >> }

\* C22: after a step that changes the selected date, the session or the
\* entries snapshot and leaves a member signed in, the value and notes
\* inputs hold the owner's entry of the selected date if there is one;
\* otherwise the value input is empty and the notes input holds the notes
\* of the owner's latest earlier entry of the same movement, or nothing.
C22_InputsPrefilled ==
    [][(/\ session' # NoSession
        /\ \/ selectedDate' # selectedDate
           \/ session' # session
           \/ entries' # entries)
       => <<inputVal', inputNotes'>> \in ExpectedInputs(selectedDate', session', entries')]_vars

\* A day without an entry of the signed-in member is selected, on which
\* another member has an entry with other notes; the value input is empty and
\* the notes input holds the trimmed notes of the member's earlier entry of
\* the day's movement.
C22_Witness ==
    /\ session # NoSession
    /\ \A i \in DOMAIN entries :
         entries[i].user_id = session => entries[i].date # LocalDay(selectedDate)
    /\ \E i \in DOMAIN entries :
         /\ entries[i].user_id # session
         /\ entries[i].date = LocalDay(selectedDate)
         /\ entries[i].notes = Theirs
    /\ \E i \in DOMAIN entries :
         /\ entries[i].user_id = session
         /\ entries[i].movement = movementForDate(selectedDate).name
         /\ entries[i].date < LocalDay(selectedDate)
         /\ entries[i].notes = <<"o", "k">>
    /\ inputVal = << >>
    /\ inputNotes = <<"o", "k">>

(* ================= entries and the cycle calendar (C23) ================ *)

\* C23: every row a Save adds to the entries table has the movement and
\* the unit that movementForDate gives for the calendar day in the row's
\* date field, a movement other than TBD, and the signed-in member's id.
C23_EntryMatchesCalendar ==
    [][\A r \in store' \ store :
          LET mov == movementForDate(DateParseLocal(r.date)) IN
          /\ r.movement = mov.name
          /\ r.unit = mov.unit
          /\ r.movement # "TBD"
          /\ r.user_id = session]_vars

\* East and west of UTC a member has saved an entry for the selected day.
C23_Witness ==
    /\ tz # 0
    /\ session # NoSession
    /\ \E r \in store : r.user_id = session /\ r.date = LocalDay(selectedDate)
    /\ \E r \in store : r.user_id # session

(* ======================== overlapping saves (C24) ====================== *)

\* C24: when no saveEntry call waits for the store any more, the entries
\* snapshot holds exactly the rows of the entries table.
C24_SnapshotMatchesStore ==
    pending = {} => { entries[i] : i \in DOMAIN entries } = store

(* ===================== the auth subscriptions (C25) ==================== *)

\* C25: an instance of the auth effect that was cleaned up and whose
\* session lookup has finished holds no active subscription.
C25_CleanedUpUnsubscribed ==
    \A i \in DOMAIN authEffects :
        authEffects[i].cleaned /\ authEffects[i].phase # "lookup"
            => ~authEffects[i].active

(* ========================= the local mirror (C26) ====================== *)

\* C26: after every event and the effects it starts, localStorage holds
\* the name state under mom3nt_name and the gender state under
\* mom3nt_gender.
C26_MirrorUpToDate ==
    /\ mirror.name = profName
    /\ mirror.gender = profGender
====
